---------------------------- MODULE Spec2Model ----------------------------
(***************************************************************************)
(* A model of the NL-to-SQL translator: the query validator                *)
(* (src/query_validator.py), the cache manager (src/cache_manager.py) and  *)
(* the orchestrator (src/nlp_to_sql.py).                                   *)
(*                                                                         *)
(* Text is modelled as a sequence of one-character strings, so that        *)
(* strip(), upper(), startswith(), count() and the regular expressions of  *)
(* the validator are computed character by character as Python computes    *)
(* them (restricted to ASCII).                                             *)
(***************************************************************************)
EXTENDS Integers, Sequences, FiniteSets, TLC

(***************************************************************************)
(* Bounds of the model.                                                    *)
(***************************************************************************)
\* longest validator input, in tokens of the vocabulary below
MaxTokens == 3
\* largest max_size a cache manager is built with (the program's default is 1000)
MaxSize == 2
\* how many times the clock advances
MaxTicks == 2
\* hours the clock advances in one step
TickHours == 12

(***************************************************************************)
(* Characters and Python's str primitives.                                 *)
(***************************************************************************)
LowerLetters == <<"a","b","c","d","e","f","g","h","i","j","k","l","m","n","o","p","q","r","s","t","u","v","w","x","y","z">>
UpperLetters == <<"A","B","C","D","E","F","G","H","I","J","K","L","M","N","O","P","Q","R","S","T","U","V","W","X","Y","Z">>
Digits == <<"0","1","2","3","4","5","6","7","8","9">>

Range(f) == {f[i] : i \in DOMAIN f}

LowerSet == Range(LowerLetters)
UpperSet == Range(UpperLetters)
DigitSet == Range(Digits)

\* str.isspace for the ASCII range: what strip() removes and what \s matches
WhiteSpace == {" ", "\t", "\n", "\r", "\f"}

\* \w of Python's re for the ASCII range
IsWordChar(c) == c \in LowerSet \cup UpperSet \cup DigitSet \cup {"_"}

IndexIn(c, t) == CHOOSE i \in DOMAIN t : t[i] = c

upperChar(c) == IF c \in LowerSet THEN UpperLetters[IndexIn(c, LowerLetters)] ELSE c
lowerChar(c) == IF c \in UpperSet THEN LowerLetters[IndexIn(c, UpperLetters)] ELSE c

\* str.upper() and str.lower()
upper(s) == [i \in DOMAIN s |-> upperChar(s[i])]
lower(s) == [i \in DOMAIN s |-> lowerChar(s[i])]

RECURSIVE lstrip(_)
lstrip(s) == IF s # <<>> /\ Head(s) \in WhiteSpace THEN lstrip(Tail(s)) ELSE s

RECURSIVE rstrip(_)
rstrip(s) ==
  IF s # <<>> /\ s[Len(s)] \in WhiteSpace THEN rstrip(SubSeq(s, 1, Len(s) - 1)) ELSE s

\* str.strip()
strip(s) == rstrip(lstrip(s))

\* str.rstrip(chars)
RECURSIVE rstripChars(_, _)
rstripChars(s, cs) ==
  IF s # <<>> /\ s[Len(s)] \in cs THEN rstripChars(SubSeq(s, 1, Len(s) - 1), cs) ELSE s

\* the text s[i .. i+Len(p)-1] is p
MatchAt(s, i, p) == i >= 1 /\ i + Len(p) - 1 <= Len(s) /\ SubSeq(s, i, i + Len(p) - 1) = p

\* str.startswith, str.endswith, the `in` operator on str
startswith(s, p) == MatchAt(s, 1, p)
endswith(s, p) == MatchAt(s, Len(s) - Len(p) + 1, p)
contains(s, p) == \E i \in 1..(Len(s) + 1) : MatchAt(s, i, p)

\* str.count(sub): occurrences found left to right, not overlapping
RECURSIVE countFrom(_, _, _)
countFrom(s, sub, i) ==
  IF i + Len(sub) - 1 > Len(s) THEN 0
  ELSE IF MatchAt(s, i, sub) THEN 1 + countFrom(s, sub, i + Len(sub))
  ELSE countFrom(s, sub, i + 1)

count(s, sub) == countFrom(s, sub, 1)

\* concatenation of a sequence of texts
RECURSIVE Cat(_)
Cat(ts) == IF ts = <<>> THEN <<>> ELSE Head(ts) \o Cat(Tail(ts))

\* str(n) for n >= 0
RECURSIVE intToStr(_)
intToStr(n) == IF n < 10 THEN <<Digits[n + 1]>> ELSE intToStr(n \div 10) \o <<Digits[(n % 10) + 1]>>

(***************************************************************************)
(* QueryValidator (src/query_validator.py).                                *)
(***************************************************************************)
kwDROP == <<"D","R","O","P">>
kwDELETE == <<"D","E","L","E","T","E">>
kwTRUNCATE == <<"T","R","U","N","C","A","T","E">>
kwALTER == <<"A","L","T","E","R">>
kwCREATE == <<"C","R","E","A","T","E">>
kwINSERT == <<"I","N","S","E","R","T">>
kwUPDATE == <<"U","P","D","A","T","E">>
kwREPLACE == <<"R","E","P","L","A","C","E">>
kwEXEC == <<"E","X","E","C">>
kwEXECUTE == <<"E","X","E","C","U","T","E">>
kwGRANT == <<"G","R","A","N","T">>
kwREVOKE == <<"R","E","V","O","K","E">>
kwSELECT == <<"S","E","L","E","C","T">>
kwWITH == <<"W","I","T","H">>
kwUNION == <<"U","N","I","O","N">>
kwXP_ == <<"X","P","_">>

\* a faulty variant of the deny list: UPDATE is forgotten
DANGEROUS_KEYWORDS_NoUpdate ==
  <<kwDROP, kwDELETE, kwTRUNCATE, kwALTER, kwCREATE, kwINSERT, kwREPLACE, kwEXEC, kwEXECUTE, kwGRANT, kwREVOKE>>

DANGEROUS_KEYWORDS ==
  <<kwDROP, kwDELETE, kwTRUNCATE, kwALTER, kwCREATE, kwINSERT, kwUPDATE, kwREPLACE, kwEXEC, kwEXECUTE, kwGRANT, kwREVOKE>>

ALLOWED_KEYWORDS == <<kwSELECT, kwWITH>>

\* the pattern \bKEYWORD\b with re.IGNORECASE matches at position i of s
\* (su is s in upper case: the keywords are upper-case ASCII)
wordMatchAt(s, su, i, kw) ==
  /\ MatchAt(su, i, kw)
  /\ (i = 1 \/ ~IsWordChar(s[i - 1]))
  /\ (i + Len(kw) > Len(s) \/ ~IsWordChar(s[i + Len(kw)]))

\* pattern.search(sql) for \bKEYWORD\b: scan the start positions left to right
RECURSIVE searchWordFrom(_, _, _, _)
searchWordFrom(s, su, kw, i) ==
  IF i + Len(kw) - 1 > Len(s) THEN FALSE
  ELSE IF wordMatchAt(s, su, i, kw) THEN TRUE
  ELSE searchWordFrom(s, su, kw, i + 1)

searchWord(s, kw) == searchWordFrom(s, upper(s), kw, 1)

\* the loop over self.dangerous_patterns
anyDangerousKeyword(s) ==
  \E k \in DOMAIN DANGEROUS_KEYWORDS : searchWord(s, DANGEROUS_KEYWORDS[k])

\* any(sql_upper.strip().startswith(keyword) for keyword in ALLOWED_KEYWORDS)
startsWithAllowed(s) ==
  \E k \in DOMAIN ALLOWED_KEYWORDS : startswith(strip(upper(s)), ALLOWED_KEYWORDS[k])

\* first position at or after i that is not whitespace (the greedy \s*)
RECURSIVE skipSpace(_, _)
skipSpace(s, i) == IF i <= Len(s) /\ s[i] \in WhiteSpace THEN skipSpace(s, i + 1) ELSE i

\* r";\s*(DROP|DELETE|INSERT|UPDATE)" with re.IGNORECASE
matchMultiStatement(s, su) ==
  \E i \in DOMAIN s :
    /\ s[i] = ";"
    /\ \E kw \in {kwDROP, kwDELETE, kwINSERT, kwUPDATE} : MatchAt(su, skipSpace(s, i + 1), kw)

searchMultiStatement(s) == matchMultiStatement(s, upper(s))

\* '.' of a pattern compiled without re.DOTALL: any character but a line break
DotMatches(c) == c # "\n"

\* r"UNION.*SELECT" with re.IGNORECASE
matchUnionSelect(s, su) ==
  \E i \in DOMAIN s :
    /\ MatchAt(su, i, kwUNION)
    /\ \E j \in (i + Len(kwUNION))..Len(s) :
         /\ MatchAt(su, j, kwSELECT)
         /\ \A m \in (i + Len(kwUNION))..(j - 1) : DotMatches(s[m])

searchUnionSelect(s) == matchUnionSelect(s, upper(s))

\* r"EXEC\s*\(" with re.IGNORECASE
matchExecCall(s, su) ==
  \E i \in DOMAIN s :
    /\ MatchAt(su, i, kwEXEC)
    /\ MatchAt(s, skipSpace(s, i + Len(kwEXEC)), <<"(">>)

searchExecCall(s) == matchExecCall(s, upper(s))

\* r"xp_\w+" with re.IGNORECASE
matchXp(s, su) ==
  \E i \in DOMAIN s :
    /\ MatchAt(su, i, kwXP_)
    /\ i + Len(kwXP_) <= Len(s)
    /\ IsWordChar(s[i + Len(kwXP_)])

searchXp(s) == matchXp(s, upper(s))

\* the loop over the four injection patterns
anyInjectionPattern(s) ==
  searchMultiStatement(s) \/ searchUnionSelect(s) \/ searchExecCall(s) \/ searchXp(s)

\* a faulty variant of is_safe: the check of the leading keyword is forgotten
is_safe_NoLeaderCheck(sql) ==
  IF anyDangerousKeyword(sql) THEN FALSE
  ELSE IF anyInjectionPattern(sql) THEN FALSE
  ELSE TRUE

\* QueryValidator.is_safe
is_safe(sql) ==
  IF anyDangerousKeyword(sql) THEN FALSE
  ELSE IF ~startsWithAllowed(sql) THEN FALSE
  ELSE IF anyInjectionPattern(sql) THEN FALSE
  ELSE TRUE

\* sql.count("'") - sql.count("\\'") and the same for the double quote
single_quotes(s) == count(s, <<"'">>) - count(s, <<"\\", "'">>)
double_quotes(s) == count(s, <<"\"">>) - count(s, <<"\\", "\"">>)

\* a faulty variant of validate: the quotes are not counted
validate_NoQuoteCheck(sql) ==
  LET s == strip(sql) IN
  IF s = <<>> THEN [is_valid |-> FALSE, error |-> "Query is empty"]
  ELSE IF ~startsWithAllowed(s)
    THEN [is_valid |-> FALSE, error |-> "Query must start with SELECT or WITH"]
  ELSE IF count(s, <<"(">>) # count(s, <<")">>)
    THEN [is_valid |-> FALSE, error |-> "Unbalanced parentheses"]
  ELSE [is_valid |-> TRUE, error |-> "None"]

\* QueryValidator.validate
validate(sql) ==
  LET s == strip(sql) IN
  IF s = <<>> THEN [is_valid |-> FALSE, error |-> "Query is empty"]
  ELSE IF ~startsWithAllowed(s)
    THEN [is_valid |-> FALSE, error |-> "Query must start with SELECT or WITH"]
  ELSE IF count(s, <<"(">>) # count(s, <<")">>)
    THEN [is_valid |-> FALSE, error |-> "Unbalanced parentheses"]
  ELSE IF single_quotes(s) % 2 # 0 \/ double_quotes(s) % 2 # 0
    THEN [is_valid |-> FALSE, error |-> "Unbalanced quotes"]
  ELSE [is_valid |-> TRUE, error |-> "None"]

\* QueryValidator.get_safety_report: issues holds the keyword of each pattern
\* of dangerous_patterns found in the text, and only when is_safe is False
safety_report(sql, safe, validation) ==
  [is_safe |-> safe,
   is_valid |-> validation.is_valid,
   issues |-> IF ~safe
                THEN SelectSeq(DANGEROUS_KEYWORDS, LAMBDA kw : searchWord(sql, kw))
                ELSE <<>>,
   validation_error |-> validation.error]

get_safety_report(sql) == safety_report(sql, is_safe(sql), validate(sql))

(***************************************************************************)
(* CacheManager (src/cache_manager.py).                                    *)
(*                                                                         *)
(* The in-memory dict and the JSON document are sequences of entries       *)
(* [key, result, cached_at] in insertion order (the order a dict iterates  *)
(* in and json.dump writes in).  Time is counted in hours.  A cached_at    *)
(* text is <<"iso", t>> when it is the ISO form of time t, <<"", 0>> when  *)
(* it is missing or empty and <<"bad", 0>> when it does not parse; an      *)
(* entry of the document whose value is not a JSON object has no cached_at *)
(* to ask for and is written <<"nodict", 0>>.  A document is of form "map" *)
(* (a JSON object of entries), "corrupt" (not JSON) or "other" (JSON, but  *)
(* not an object).                                                         *)
(***************************************************************************)
\* ttl_hours: int = 24
ttl_hours == 24

\* datetime.isoformat() and datetime.fromisoformat()
isoformat(t) == <<"iso", t>>
parses(text) == text[1] = "iso"
fromisoformat(text) == text[2]

Keys_of(mem) == { mem[i].key : i \in DOMAIN mem }
IndexOfKey(mem, key) == CHOOSE i \in DOMAIN mem : mem[i].key = key
RemoveAt(mem, i) == SubSeq(mem, 1, i - 1) \o SubSeq(mem, i + 1, Len(mem))

\* del self.cache[key]
DelKey(mem, key) == RemoveAt(mem, IndexOfKey(mem, key))

\* self.cache[key] = entry: an existing key keeps its place, a new one goes last
PutKey(mem, key, entry) ==
  IF key \in Keys_of(mem)
    THEN [mem EXCEPT ![IndexOfKey(mem, key)] = entry]
    ELSE Append(mem, entry)

AbsentFile == [exists |-> FALSE, form |-> "map", data |-> <<>>]

\* a faulty variant of _save_cache for what follows: the entries of the
\* document under keys the dict does not hold are kept
save_cache_Merge(mem, file, canWrite) ==
  IF canWrite
    THEN [exists |-> TRUE, form |-> "map",
          data |-> SelectSeq(file.data, LAMBDA e : e.key \notin Keys_of(mem)) \o mem]
    ELSE file

\* CacheManager._save_cache: the whole dict replaces the document; a failure
\* to write is swallowed and leaves the document as it was
save_cache(mem, file, canWrite) ==
  IF canWrite THEN [exists |-> TRUE, form |-> "map", data |-> mem] ELSE file

\* the loop of _load_cache: keep the entries with a parseable cached_at
\* younger than ttl_hours
RECURSIVE valid_entries(_, _)
valid_entries(data, t) ==
  IF data = <<>> THEN <<>>
  ELSE LET e == Head(data)
           keep == /\ e.cached_at[1] # ""
                   /\ parses(e.cached_at)
                   /\ t - fromisoformat(e.cached_at) < ttl_hours
       IN (IF keep THEN <<e>> ELSE <<>>) \o valid_entries(Tail(data), t)

\* CacheManager._load_cache, when it returns: json.load raises JSONDecodeError
\* on a corrupt document, which the outer handler turns into {}
load_cache(file, t) ==
  IF file.exists /\ file.form = "map" THEN valid_entries(file.data, t) ELSE <<>>

\* CacheManager._load_cache, when it raises: cache_data.items() on a document
\* that is not an object and value.get() on an entry that is not one raise
\* AttributeError, which neither handler catches
load_raises(file) ==
  /\ file.exists
  /\ \/ file.form = "other"
     \/ file.form = "map" /\ \E i \in DOMAIN file.data : file.data[i].cached_at[1] = "nodict"

\* CacheManager.__init__: self.cache = self._load_cache()
load(file, t) ==
  IF load_raises(file) THEN [raised |-> TRUE, cache |-> <<>>]
  ELSE [raised |-> FALSE, cache |-> load_cache(file, t)]

\* what a caller sees of a get() that returns None
NoResult == [sql |-> <<"None">>, explanation |-> <<"None">>, cached |-> FALSE]

\* faulty variants of the expiry test: an entry of exactly ttl_hours is kept;
\* the comparison is reversed
is_expired_Strict(t, at) == t - at > ttl_hours

is_expired_Reversed(t, at) == t - at < ttl_hours

\* datetime.now() - cached_at >= timedelta(hours=self.ttl_hours)
is_expired(t, at) == t - at >= ttl_hours

\* CacheManager.get: the dict and the document after the call, and what it returns
cache_get(mem, file, key, t, canWrite) ==
  IF key \notin Keys_of(mem)
    THEN [cache |-> mem, file |-> file, found |-> FALSE, result |-> NoResult]
  ELSE LET entry == mem[IndexOfKey(mem, key)] IN
    IF entry.cached_at[1] = ""
      THEN [cache |-> mem, file |-> file, found |-> FALSE, result |-> NoResult]
    ELSE IF ~parses(entry.cached_at) \/ is_expired(t, fromisoformat(entry.cached_at))
      THEN [cache |-> DelKey(mem, key),
            file |-> save_cache(DelKey(mem, key), file, canWrite),
            found |-> FALSE, result |-> NoResult]
    ELSE [cache |-> mem, file |-> file, found |-> TRUE, result |-> entry.result]

\* a faulty variant of the choice of the victim: the newest entry
oldest_index_Newest(mem) ==
  CHOOSE i \in DOMAIN mem :
    /\ \A j \in DOMAIN mem : fromisoformat(mem[j].cached_at) <= fromisoformat(mem[i].cached_at)
    /\ \A j \in 1..(i - 1) : fromisoformat(mem[j].cached_at) < fromisoformat(mem[i].cached_at)

\* min(self.cache.keys(), key=cached_at): the first entry, in iteration order,
\* whose cached_at is the least
oldest_index(mem) ==
  CHOOSE i \in DOMAIN mem :
    /\ \A j \in DOMAIN mem : fromisoformat(mem[i].cached_at) <= fromisoformat(mem[j].cached_at)
    /\ \A j \in 1..(i - 1) : fromisoformat(mem[i].cached_at) < fromisoformat(mem[j].cached_at)

\* len(self.cache) >= self.max_size
must_evict(mem, size) == Len(mem) >= size

\* the eviction of CacheManager.set.  min() raises ValueError on an empty dict
\* and fromisoformat on a text that does not parse; the handler then takes
\* next(iter(self.cache)), which raises StopIteration on an empty dict.
evict(mem) ==
  IF mem = <<>> THEN [raised |-> TRUE, cache |-> mem]
  ELSE IF \E i \in DOMAIN mem : ~parses(mem[i].cached_at)
    THEN [raised |-> FALSE, cache |-> RemoveAt(mem, 1)]
  ELSE [raised |-> FALSE, cache |-> RemoveAt(mem, oldest_index(mem))]

\* CacheManager.set: the dict and the document after the call, and whether it raised
cache_set(mem, file, size, key, value, t, canWrite) ==
  LET ev == IF must_evict(mem, size) THEN evict(mem) ELSE [raised |-> FALSE, cache |-> mem]
      entry == [key |-> key, result |-> value, cached_at |-> isoformat(t)]
      after == PutKey(ev.cache, key, entry)
  IN IF ev.raised
       THEN [cache |-> mem, file |-> file, raised |-> TRUE]
       ELSE [cache |-> after, file |-> save_cache(after, file, canWrite), raised |-> FALSE]

\* CacheManager.clear: unlink raises when the document cannot be removed
cache_clear(mem, file, canWrite) ==
  IF file.exists /\ ~canWrite
    THEN [cache |-> <<>>, file |-> file, raised |-> TRUE]
    ELSE [cache |-> <<>>, file |-> AbsentFile, raised |-> FALSE]

(***************************************************************************)
(* NLToSQLTranslator (src/nlp_to_sql.py).                                  *)
(***************************************************************************)
None == <<"None">>

\* the backquote character (a TLA+ string cannot hold it)
BackQuote == "BACKQUOTE"
Fence == <<BackQuote, BackQuote, BackQuote>>
FenceSql == Fence \o <<"s","q","l">>
kwLIMIT == <<"L","I","M","I","T">>
ExplanationMarker == <<"e","x","p","l","a","n","a","t","i","o","n",":">>
NoteMarker == <<"n","o","t","e",":">>

\* hashlib.md5(...).hexdigest(): a digest of the text, taken to be free of collisions
md5(text) == <<"md5", text>>

\* a faulty variant of the key: the question is not normalised
generate_cache_key_Raw(query) == md5(query)

\* NLToSQLTranslator._generate_cache_key
generate_cache_key(query) == md5(strip(lower(query)))

\* s[n:] and s[:-n]
DropFirst(s, n) == SubSeq(s, n + 1, Len(s))
DropLast(s, n) == SubSeq(s, 1, Len(s) - n)

\* the clean-up of the response in translate
sanitize(content) ==
  LET s0 == strip(content)
      s1 == IF startswith(s0, FenceSql) THEN DropFirst(s0, Len(FenceSql)) ELSE s0
      s2 == IF startswith(s1, Fence) THEN DropFirst(s1, Len(Fence)) ELSE s1
      s3 == IF endswith(s2, Fence) THEN DropLast(s2, Len(Fence)) ELSE s2
  IN strip(s3)

\* str.split("\n")
RECURSIVE splitLines(_)
splitLines(s) ==
  IF \A i \in DOMAIN s : s[i] # "\n" THEN <<s>>
  ELSE LET n == CHOOSE i \in DOMAIN s : s[i] = "\n" /\ \A j \in 1..(i - 1) : s[j] # "\n"
       IN <<SubSeq(s, 1, n - 1)>> \o splitLines(SubSeq(s, n + 1, Len(s)))

\* line.split(":", 1)[1]
afterColon(line) ==
  LET n == CHOOSE i \in DOMAIN line : line[i] = ":" /\ \A j \in 1..(i - 1) : line[j] # ":"
  IN SubSeq(line, n + 1, Len(line))

hasMarker(text) == contains(lower(text), ExplanationMarker) \/ contains(lower(text), NoteMarker)

\* the loop of _extract_explanation over the lines
RECURSIVE explanation_lines(_, _)
explanation_lines(lines, in_explanation) ==
  IF lines = <<>> THEN <<>>
  ELSE LET line == Head(lines) IN
    IF hasMarker(line)
      THEN <<strip(afterColon(line))>> \o explanation_lines(Tail(lines), TRUE)
    ELSE IF in_explanation /\ strip(line) # <<>>
      THEN IF startswith(strip(line), Fence) THEN <<>>
           ELSE <<strip(line)>> \o explanation_lines(Tail(lines), in_explanation)
    ELSE explanation_lines(Tail(lines), in_explanation)

\* " ".join(parts)
RECURSIVE joinSpace(_)
joinSpace(parts) ==
  IF parts = <<>> THEN <<>>
  ELSE IF Len(parts) = 1 THEN parts[1]
  ELSE parts[1] \o <<" ">> \o joinSpace(Tail(parts))

\* NLToSQLTranslator._extract_explanation
extract_explanation(content) ==
  IF hasMarker(content)
    THEN LET parts == explanation_lines(splitLines(content), FALSE)
         IN IF parts # <<>> THEN joinSpace(parts) ELSE None
    ELSE None

\* what the LLM provider does with one request: it fails (openai.OpenAIError),
\* answers with no content (None), or answers with a text
ProviderError == [kind |-> "error", content |-> <<>>]
NoContent == [kind |-> "none", content |-> <<>>]
Answer(text) == [kind |-> "text", content |-> text]

\* a faulty variant: a failed request is repeated once
llm_requests_Retry(llm) == IF llm.kind = "error" THEN 2 ELSE 1

\* the requests one pass through the try block makes: create() is called once
llm_requests(llm) == 1

\* a faulty variant of the two checks before the cache write: is_safe is forgotten
gate_ValidateOnly(sql) == IF ~validate(sql).is_valid THEN "invalid" ELSE "pass"

\* a faulty variant of the two checks: validate is forgotten
gate_SafeOnly(sql) == IF ~is_safe(sql) THEN "unsafe" ELSE "pass"

\* the two checks of translate on the cleaned text, in order
gate(sql) ==
  IF ~validate(sql).is_valid THEN "invalid"
  ELSE IF ~is_safe(sql) THEN "unsafe"
  ELSE "pass"

\* the two ValueErrors raised inside the try block pass through the handler
\* "except Exception", which raises ValueError("Translation error: " + message)
gate_message(verdict) ==
  IF verdict = "invalid" THEN "Translation error: Generated SQL is invalid: "
  ELSE "Translation error: Generated SQL contains potentially unsafe operations"

\* message.content is None: None.strip() raises AttributeError in the try block
NoContentMessage == "Translation error: 'NoneType' object has no attribute 'strip'"

\* the class of the exception a failed call raises: every raise statement of
\* translate and execute_query raises ValueError
exception_class(r) == IF r.op = "none" \/ r.ok THEN "None" ELSE "ValueError"

NoReturn ==
  [op |-> "none", ok |-> FALSE, error |-> "None", q |-> <<>>, use_cache |-> FALSE,
   sql |-> None, explanation |-> None, cached |-> FALSE,
   llm_calls |-> 0, prompts |-> 0, input |-> <<>>, stmt |-> None,
   connected |-> FALSE, closed |-> FALSE]

\* the cached dict is the one get() returned: cached_result["cached"] = True
\* writes into the entry held by the in-memory dict
mark_cached(mem, key) ==
  [mem EXCEPT ![IndexOfKey(mem, key)].result.cached = TRUE]

\* a faulty variant of the look-up: it is made whatever use_cache says
cache_check_Always(mem, file, uses, key, t, canWrite) ==
  cache_get(mem, file, key, t, canWrite)

\* "Check cache first": the look-up is made only if use_cache and self.cache
cache_check(mem, file, uses, key, t, canWrite) ==
  IF uses THEN cache_get(mem, file, key, t, canWrite)
  ELSE [cache |-> mem, file |-> file, found |-> FALSE, result |-> NoResult]

(* The inputs of translate and execute_query the model draws from. *)
SelectA == kwSELECT \o <<" ","a">>
SelectB == kwSELECT \o <<" ","b">>
DropT == kwDROP \o <<" ","t">>

\* the questions put to translate: the first two differ in case and spacing only
Questions == { <<"a">>, <<"A"," ">>, <<"b">> }

\* what the provider may do with a request
LLMOutcomes ==
  { ProviderError,
    NoContent,
    Answer(SelectA),
    Answer(Fence \o <<"s","q","l","\n">> \o SelectA \o <<"\n">> \o Fence),
    Answer(SelectB \o <<"\n","N","o","t","e",":"," ","x">>),
    Answer(kwSELECT \o <<" ","(","a">>),
    Answer(SelectA \o <<";"," ">> \o DropT),
    Answer(DropT) }

\* the texts submitted to execute_query directly
ExecInputs ==
  { SelectA,
    SelectA \o <<";">>,
    <<"s","e","l","e","c","t"," ","a"," ","l","i","m","i","t"," ","1">>,
    kwWITH \o <<" ","c"," ">> \o SelectA,
    SelectA \o <<";"," ">> \o DropT,
    DropT }

Limits == { 5, 100 }

\* the contents of the provider's answers
AnswerTexts == { o.content : o \in LLMOutcomes }

DbOutcomes == { "ok", "connect_error", "execute_error" }

\* what the try block computes from the content of an answer: the cleaned
\* text, the verdict of the two checks on it and the explanation
generated(content) ==
  [sql_query |-> sanitize(content),
   verdict |-> gate(sanitize(content)),
   explanation |-> extract_explanation(content)]

\* generated(), computed once for each answer of the model
Generated == [content \in AnswerTexts |-> generated(content)]

\* the end of the try block: the two checks, the result and the cache write
translate_checked(look, size, t, canWrite, key, uses, miss, gen) ==
  IF gen.verdict # "pass"
    THEN [cache |-> look.cache, file |-> look.file,
          ret |-> [miss EXCEPT !.error = gate_message(gen.verdict)]]
  ELSE
    LET result == [sql |-> gen.sql_query, explanation |-> gen.explanation, cached |-> FALSE]
        done == [miss EXCEPT !.ok = TRUE, !.sql = result.sql,
                             !.explanation = result.explanation]
    IN IF ~uses THEN [cache |-> look.cache, file |-> look.file, ret |-> done]
       ELSE LET stored == cache_set(look.cache, look.file, size, key, result, t, canWrite)
            IN IF stored.raised
                 THEN [cache |-> look.cache, file |-> look.file,
                       ret |-> [miss EXCEPT !.error = "Translation error: "]]
                 ELSE [cache |-> stored.cache, file |-> stored.file, ret |-> done]

\* translate after the cache look-up
translate_looked(look, size, t, canWrite, key, uses, call, llm) ==
  IF look.found
    THEN [cache |-> mark_cached(look.cache, key), file |-> look.file,
          ret |-> [call EXCEPT !.ok = TRUE, !.sql = look.result.sql,
                               !.explanation = look.result.explanation,
                               !.cached = TRUE]]
  ELSE
    LET miss == [call EXCEPT !.prompts = 1, !.llm_calls = llm_requests(llm)] IN
    IF llm.kind = "error"
      THEN [cache |-> look.cache, file |-> look.file,
            ret |-> [miss EXCEPT !.error = "OpenAI API error: "]]
    ELSE IF llm.kind = "none"
      THEN [cache |-> look.cache, file |-> look.file,
            ret |-> [miss EXCEPT !.error = NoContentMessage]]
    ELSE translate_checked(look, size, t, canWrite, key, uses, miss,
                           Generated[llm.content])

\* NLToSQLTranslator.translate: the dict and the document after the call and
\* what the caller gets (a result, or a ValueError with its message)
translate(mem, file, enabled, size, t, canWrite, q, use_cache, llm) ==
  translate_looked(
    cache_check(mem, file, use_cache /\ enabled, generate_cache_key(q), t, canWrite),
    size, t, canWrite, generate_cache_key(q), use_cache /\ enabled,
    [NoReturn EXCEPT !.op = "translate", !.q = q, !.use_cache = use_cache], llm)

\* a faulty variant of the admission check: everything is admitted
admits_Any(sql) == TRUE

\* the final safety check of execute_query
admits(sql) == is_safe(sql)

\* "Add LIMIT if not present and query is SELECT"
with_limit(sql, limit) ==
  IF startswith(upper(strip(sql)), kwSELECT) /\ ~contains(upper(sql), kwLIMIT)
    THEN rstripChars(sql, {";"}) \o <<" ">> \o kwLIMIT \o <<" ">> \o intToStr(limit)
    ELSE sql

\* texts with and without a LIMIT clause, a trailing semicolon, trailing
\* spaces and a column whose name ends in _limit
LimitLeads ==
  { SelectA, <<"s","e","l","e","c","t"," ","a">>, kwWITH \o <<" ","c"," ">> \o SelectA }
LimitTokens ==
  { <<";">>, <<" ">>, <<" ","l","i","m","i","t"," ","1">>, <<"_","l","i","m","i","t">> }
LimitInputs ==
  { l \o Cat(ts) : l \in LimitLeads, ts \in UNION { [1..k -> LimitTokens] : k \in 0..MaxTokens } }

\* the texts execute_query can be handed in the model: those submitted
\* directly, those translate generates and those the start-up documents hold
ExecTexts ==
  ExecInputs \cup LimitInputs \cup { Generated[c].sql_query : c \in AnswerTexts }
    \cup { SelectA, SelectB, DropT }

\* admits() and with_limit(), computed once for each of them
Admission == [sql \in ExecTexts |-> admits(sql)]
Limited == [sql \in ExecTexts |-> [limit \in Limits |-> with_limit(sql, limit)]]

\* NLToSQLTranslator.execute_query: what the caller gets, with the statement
\* handed to the database.  The database connects or not, and runs the
\* statement or fails on it (sqlite3.Error); conn.close() is reached only when
\* the statement ran.
execute_query(sql, limit, outcome) ==
  LET call == [NoReturn EXCEPT !.op = "execute", !.input = sql] IN
  IF ~Admission[sql]
    THEN [call EXCEPT !.error = "Query contains potentially unsafe operations"]
  ELSE IF outcome = "connect_error"
    THEN [call EXCEPT !.error = "Database error: "]
  ELSE IF outcome = "execute_error"
    THEN [call EXCEPT !.error = "Database error: ", !.stmt = Limited[sql][limit],
                      !.connected = TRUE]
  ELSE [call EXCEPT !.ok = TRUE, !.stmt = Limited[sql][limit],
                    !.connected = TRUE, !.closed = TRUE]

\* SchemaIntrospector.get_schema: the connection is opened first, the
\* statements run on its cursor with no handler around them, and conn.close()
\* is the last statement before the return: a statement that fails leaves the
\* method through the sqlite3 exception, past the close.
get_schema(outcome) ==
  LET call == [NoReturn EXCEPT !.op = "get_schema"] IN
  IF outcome = "connect_error"
    THEN [call EXCEPT !.error = "sqlite3.Error"]
  ELSE IF outcome = "execute_error"
    THEN [call EXCEPT !.error = "sqlite3.Error", !.connected = TRUE]
  ELSE [call EXCEPT !.ok = TRUE, !.connected = TRUE, !.closed = TRUE]

(***************************************************************************)
(* State.                                                                  *)
(***************************************************************************)
VARIABLES
  vsql,           \* the text handed to the validator
  vout,           \* what validate and is_safe returned for it
  cache,          \* CacheManager.cache, the in-memory dict
  file,           \* the document nl_to_sql_cache.json
  writable,       \* whether the document can be written and removed
  max_size,       \* CacheManager.max_size
  now,            \* datetime.now(), in hours
  cache_enabled,  \* NLToSQLTranslator.cache_enabled
  ret,            \* what the last call of translate or execute_query gave its caller,
                  \* with the statement it handed to the database
  cop,            \* the last call made on the cache manager and what it returned
  fill,           \* the set() calls made on the store since it was last empty
  peer            \* the in-memory dict of a second process sharing the document

vvars == <<vsql, vout>>
cvars == <<cache, file, writable, max_size, now, cop, fill, peer>>
tvars == <<cache_enabled, ret>>

vars == <<vsql, vout, cache, file, writable, max_size, now, cache_enabled, ret,
          cop, fill, peer>>

(***************************************************************************)
(* The inputs the model draws from.                                        *)
(***************************************************************************)
Tokens ==
  { kwSELECT, <<"w","i","t","h">>, <<" ">>, <<"\n">>, <<"(">>, <<")">>,
    <<"'">>, <<"\"">>, <<"\\">>, <<";">>, <<"D","r","o","p">>, kwUPDATE, kwEXEC,
    <<"U","n","i","o","n">>, <<"x","p","_">> }

TokenSeqs == UNION { [1..k -> Tokens] : k \in 0..MaxTokens }

\* each of them bare, and as the rest of a SELECT statement
Prefixes == { <<>>, kwSELECT \o <<" ">> }

SqlInputs == { p \o Cat(ts) : p \in Prefixes, ts \in TokenSeqs }

\* the keys and payloads handed to the cache manager when it is driven directly
CacheKeys == { md5(<<LowerLetters[i]>>) : i \in 1..(MaxSize + 2) }

Payload(sql) == [sql |-> sql, explanation |-> None, cached |-> FALSE]

Payloads == { Payload(SelectA), Payload(SelectB) }

Entry(key, result, at) == [key |-> key, result |-> result, cached_at |-> at]

\* the documents found at start-up: none; one written by an earlier run, with an
\* entry past its time to live, one whose cached_at does not parse, one without
\* cached_at and a live one; and one edited by hand, whose live entry holds a
\* statement no translation would have stored
InitialFiles ==
  { AbsentFile,
    [exists |-> TRUE, form |-> "map",
     data |-> << Entry(md5(<<"b">>), Payload(SelectB), isoformat(0 - ttl_hours)),
                 Entry(md5(<<"c">>), Payload(SelectB), <<"bad", 0>>),
                 Entry(md5(<<"d">>), Payload(SelectB), <<"", 0>>),
                 Entry(md5(<<"a">>), Payload(SelectA), isoformat(0 - TickHours)) >>],
    [exists |-> TRUE, form |-> "map",
     data |-> << Entry(md5(<<"a">>), Payload(DropT), isoformat(0 - TickHours)) >>] }

NotCalled ==
  [called |-> FALSE, is_valid |-> FALSE, error |-> "None", is_safe |-> FALSE,
   report |-> [is_safe |-> FALSE, is_valid |-> FALSE, issues |-> <<>>,
               validation_error |-> "None"]]

NoCacheCall ==
  [op |-> "none", key |-> None, found |-> FALSE, result |-> NoResult, raised |-> FALSE,
   dropped |-> {}]

NoFill == [tracked |-> FALSE, sets |-> <<>>]

(***************************************************************************)
(* The validator on its own: every text of at most MaxTokens tokens.       *)
(***************************************************************************)
ValidatorIdle == vsql = <<>> /\ vout = NotCalled

CacheIdle ==
  /\ cache = <<>>
  /\ file = AbsentFile
  /\ writable = TRUE
  /\ max_size = MaxSize
  /\ now = 0
  /\ cop = NoCacheCall
  /\ fill = NoFill
  /\ peer = <<>>

TranslatorIdle ==
  /\ cache_enabled = FALSE
  /\ ret = NoReturn

InitValidator ==
  /\ vsql \in SqlInputs
  /\ vout = NotCalled
  /\ CacheIdle
  /\ TranslatorIdle

\* a caller runs validate(sql), is_safe(sql) and get_safety_report(sql) on the text
ValidatorReturns(validation, safe, report) ==
  /\ vout' = [called |-> TRUE,
              is_valid |-> validation.is_valid,
              error |-> validation.error,
              is_safe |-> safe,
              report |-> report]
  /\ UNCHANGED <<vsql, cvars, tvars>>

ValidatorCall ==
  /\ ~vout.called
  /\ ValidatorReturns(validate(vsql), is_safe(vsql), get_safety_report(vsql))

NextValidator == ValidatorCall

SpecValidator == InitValidator /\ [][NextValidator]_vars

(***************************************************************************)
(* The cache manager driven directly: get, set and clear in any order,     *)
(* with the clock advancing in between.                                    *)
(***************************************************************************)
\* CacheManager.__init__: the dict is loaded from the document once
InitCache ==
  /\ ValidatorIdle
  /\ TranslatorIdle
  /\ file \in InitialFiles
  /\ writable = TRUE
  /\ max_size \in 0..MaxSize
  /\ now = 0
  /\ cache = load_cache(file, now)
  /\ cop = NoCacheCall
  /\ fill = [tracked |-> (cache = <<>>), sets |-> <<>>]
  /\ peer = <<>>

\* time passes
Tick ==
  /\ now < MaxTicks * TickHours
  /\ now' = now + TickHours
  /\ UNCHANGED <<vvars, tvars, cache, file, writable, max_size, cop, fill, peer>>

\* the set() calls since the store was last empty, while nothing else changed it
fill_after_set(key, raised, t) ==
  IF fill.tracked /\ ~raised /\ Len(fill.sets) <= max_size
       /\ \A i \in DOMAIN fill.sets : fill.sets[i].key # key
    THEN [tracked |-> TRUE, sets |-> Append(fill.sets, [key |-> key, at |-> t])]
    ELSE NoFill

fill_after_other(mem) ==
  IF mem = <<>> THEN [tracked |-> TRUE, sets |-> <<>>]
  ELSE IF mem = cache THEN fill
  ELSE NoFill

GetReturns(key, r) ==
  /\ cache' = r.cache
  /\ file' = r.file
  /\ cop' = [op |-> "get", key |-> key, found |-> r.found, result |-> r.result,
             raised |-> FALSE, dropped |-> Keys_of(cache) \ Keys_of(r.cache)]
  /\ fill' = fill_after_other(r.cache)
  /\ UNCHANGED <<vvars, tvars, writable, max_size, now, peer>>

CacheGet(key) == GetReturns(key, cache_get(cache, file, key, now, writable))

SetReturns(key, value, r) ==
  /\ cache' = r.cache
  /\ file' = r.file
  /\ cop' = [op |-> "set", key |-> key, found |-> FALSE, result |-> value,
             raised |-> r.raised, dropped |-> Keys_of(cache) \ Keys_of(r.cache)]
  /\ fill' = fill_after_set(key, r.raised, now)
  /\ UNCHANGED <<vvars, tvars, writable, max_size, now, peer>>

CacheSet(key, value) ==
  SetReturns(key, value, cache_set(cache, file, max_size, key, value, now, writable))

ClearReturns(r) ==
  /\ cache' = r.cache
  /\ file' = r.file
  /\ cop' = [op |-> "clear", key |-> None, found |-> FALSE, result |-> NoResult,
             raised |-> r.raised, dropped |-> Keys_of(cache) \ Keys_of(r.cache)]
  /\ fill' = fill_after_other(r.cache)
  /\ UNCHANGED <<vvars, tvars, writable, max_size, now, peer>>

CacheClear == ClearReturns(cache_clear(cache, file, writable))

NextCache ==
  \/ \E key \in CacheKeys : CacheGet(key)
  \/ \E key \in CacheKeys : \E value \in Payloads : CacheSet(key, value)
  \/ CacheClear
  \/ Tick

SpecCache == InitCache /\ [][NextCache]_vars

(***************************************************************************)
(* Two processes, each with a cache manager of its own over one document.  *)
(* Both start on an absent document; a call of set() is one step.          *)
(***************************************************************************)
WriterKeys == { md5(<<LowerLetters[i]>>) : i \in 1..(MaxSize + 1) }

InitTwoWriters ==
  /\ ValidatorIdle
  /\ TranslatorIdle
  /\ file = AbsentFile
  /\ writable = TRUE
  /\ max_size = MaxSize
  /\ now = 0
  /\ cache = load_cache(file, now)
  /\ peer = load_cache(file, now)
  /\ cop = NoCacheCall
  /\ fill = NoFill

PeerSetReturns(key, value, r) ==
  /\ peer' = r.cache
  /\ file' = r.file
  /\ cop' = [op |-> "peer_set", key |-> key, found |-> FALSE, result |-> value,
             raised |-> r.raised, dropped |-> Keys_of(peer) \ Keys_of(r.cache)]
  /\ UNCHANGED <<vvars, tvars, cache, writable, max_size, now, fill>>

\* the second process calls set() on its own cache manager
PeerSet(key, value) ==
  PeerSetReturns(key, value, cache_set(peer, file, max_size, key, value, now, writable))

NextTwoWriters ==
  \/ \E key \in WriterKeys : CacheSet(key, Payload(SelectA))
  \/ \E key \in WriterKeys : PeerSet(key, Payload(SelectB))

SpecTwoWriters == InitTwoWriters /\ [][NextTwoWriters]_vars

(***************************************************************************)
(* The start of a cache manager on every document of at most MaxSize + 1   *)
(* entries.                                                                *)
(***************************************************************************)
\* what the document holds for an entry's cached_at: a time younger than
\* ttl_hours, one of exactly ttl_hours, an older one, one in the future, a text
\* that does not parse, nothing, and no object to hold it
Stamps ==
  { isoformat(0 - TickHours), isoformat(0 - ttl_hours),
    isoformat(0 - ttl_hours - TickHours), isoformat(TickHours),
    <<"bad", 0>>, <<"", 0>>, <<"nodict", 0>> }

MapFile(stamps) ==
  [exists |-> TRUE, form |-> "map",
   data |-> [i \in DOMAIN stamps |->
               Entry(md5(<<LowerLetters[i]>>), Payload(SelectA), stamps[i])]]

LoadFiles ==
  { AbsentFile,
    [exists |-> TRUE, form |-> "corrupt", data |-> <<>>],
    [exists |-> TRUE, form |-> "other", data |-> <<>>] }
  \cup { MapFile(st) : st \in UNION { [1..k -> Stamps] : k \in 0..(MaxSize + 1) } }

InitLoad ==
  /\ ValidatorIdle
  /\ TranslatorIdle
  /\ file \in LoadFiles
  /\ writable = TRUE
  /\ max_size = MaxSize
  /\ now = 0
  /\ cache = <<>>
  /\ cop = NoCacheCall
  /\ fill = NoFill
  /\ peer = <<>>

LoadReturns(r) ==
  /\ cache' = r.cache
  /\ cop' = [NoCacheCall EXCEPT !.op = "load", !.raised = r.raised]
  /\ UNCHANGED <<vvars, tvars, file, writable, max_size, now, fill, peer>>

\* CacheManager(): the constructor reads the document
LoadCache == cop.op = "none" /\ LoadReturns(load(file, now))

NextLoad == LoadCache

SpecLoad == InitLoad /\ [][NextLoad]_vars

(***************************************************************************)
(* The clean-up of translate on its own, on fenced and unfenced responses. *)
(***************************************************************************)
\* the language tags a provider writes after the opening fence: none, sql in
\* three letter cases, and two other languages
LanguageTags ==
  { <<>>, <<"s","q","l">>, <<"S","Q","L">>, <<"S","q","l">>,
    <<"s","q","l","i","t","e">>, <<"m","y","s","q","l">> }

\* the statement with white space before and after it
SqlBodies ==
  { pre \o SelectA \o post : pre \in { <<>>, <<" ">>, <<"\n">> },
                             post \in { <<>>, <<" ">>, <<"\n">> } }

ResponsePads == { <<>>, <<"\n">> }

\* opening fence, tag, end of line, statement, closing fence, with white space
\* around the whole
FencedResponses ==
  { [text |-> lead \o Fence \o tag \o <<"\n">> \o body \o Fence \o trail, body |-> body] :
      lead \in ResponsePads, tag \in LanguageTags, body \in SqlBodies, trail \in ResponsePads }

UnfencedResponses == SqlBodies

InitSanitize ==
  /\ ValidatorIdle
  /\ CacheIdle
  /\ cache_enabled = FALSE
  /\ ret \in { [NoReturn EXCEPT !.input = text] :
                 text \in { r.text : r \in FencedResponses } \cup UnfencedResponses }

\* the response is cleaned up; ret.sql is the text handed to validate and is_safe
Sanitize ==
  /\ ret.op = "none"
  /\ ret' = [ret EXCEPT !.op = "sanitize", !.sql = sanitize(ret.input)]
  /\ UNCHANGED <<vvars, cvars, cache_enabled>>

NextSanitize == Sanitize

SpecSanitize == InitSanitize /\ [][NextSanitize]_vars

(***************************************************************************)
(* The translator: translate and execute_query called one after another    *)
(* (each call runs to its end before the next), with the clock advancing   *)
(* in between.                                                             *)
(***************************************************************************)
\* NLToSQLTranslator.__init__: CacheManager() is built, with its defaults,
\* only when caching is enabled
Init ==
  /\ ValidatorIdle
  /\ cache_enabled \in BOOLEAN
  /\ file \in InitialFiles
  /\ writable = TRUE
  /\ max_size \in 1..MaxSize
  /\ now = 0
  /\ cache = IF cache_enabled THEN load_cache(file, now) ELSE <<>>
  /\ cop = NoCacheCall
  /\ fill = NoFill
  /\ ret = NoReturn
  /\ peer = <<>>

TranslateReturns(r) ==
  /\ cache' = r.cache
  /\ file' = r.file
  /\ ret' = r.ret
  /\ UNCHANGED <<vvars, writable, max_size, now, cop, fill, peer, cache_enabled>>

Translate(q, use_cache, llm) ==
  TranslateReturns(translate(cache, file, cache_enabled, max_size, now, writable,
                             q, use_cache, llm))

Execute(sql, limit, outcome) ==
  /\ ret' = execute_query(sql, limit, outcome)
  /\ UNCHANGED <<vvars, cvars, cache_enabled>>

\* a caller submits a text of its own
ExecuteDirect == \E sql \in ExecInputs : \E limit \in Limits : \E outcome \in DbOutcomes :
  Execute(sql, limit, outcome)

\* a caller submits what translate has just returned (main.py, /query)
ExecuteTranslated == \E outcome \in DbOutcomes :
  /\ ret.op = "translate"
  /\ ret.ok
  /\ Execute(ret.sql, 100, outcome)

Next ==
  \/ \E q \in Questions : \E use_cache \in BOOLEAN : \E llm \in LLMOutcomes :
       Translate(q, use_cache, llm)
  \/ ExecuteDirect
  \/ ExecuteTranslated
  \/ Tick

Spec == Init /\ [][Next]_vars

\* the same translator started with no cache document
InitEmpty ==
  /\ Init
  /\ file = AbsentFile

SpecEmptyStart == InitEmpty /\ [][Next]_vars

(***************************************************************************)
(* The database operations on their own: execute_query on the texts of     *)
(* LimitInputs, and get_schema.                                            *)
(***************************************************************************)
InitExecute ==
  /\ ValidatorIdle
  /\ CacheIdle
  /\ cache_enabled = FALSE
  /\ ret = NoReturn

ExecuteLimited == \E sql \in LimitInputs : \E limit \in Limits : \E outcome \in DbOutcomes :
  Execute(sql, limit, outcome)

\* the schema is read from the database (NLToSQLTranslator.__init__,
\* SchemaIntrospector.get_schema_text)
GetSchema == \E outcome \in DbOutcomes :
  /\ ret' = get_schema(outcome)
  /\ UNCHANGED <<vvars, cvars, cache_enabled>>

NextExecute == ExecuteLimited \/ GetSchema

SpecExecute == InitExecute /\ [][NextExecute]_vars

(***************************************************************************)
(* The translator and its cache manager over a document that can be        *)
(* neither written nor removed.                                            *)
(***************************************************************************)
InitUnwritable ==
  /\ ValidatorIdle
  /\ cache_enabled = TRUE
  /\ file \in InitialFiles
  /\ writable = FALSE
  /\ max_size = MaxSize
  /\ now = 0
  /\ cache = load_cache(file, now)
  /\ cop = NoCacheCall
  /\ fill = NoFill
  /\ ret = NoReturn
  /\ peer = <<>>

NextUnwritable ==
  \/ \E q \in Questions : \E use_cache \in BOOLEAN : \E llm \in LLMOutcomes :
       Translate(q, use_cache, llm)
  \/ \E q \in Questions : CacheSet(generate_cache_key(q), Payload(SelectB))
  \/ CacheClear

SpecUnwritable == InitUnwritable /\ [][NextUnwritable]_vars

(***************************************************************************)
(* Claims about the validator (checked under SpecValidator).               *)
(***************************************************************************)
\* the words of a text: its maximal runs of letters, digits and underscores
RECURSIVE wordEnd(_, _)
wordEnd(s, i) == IF i < Len(s) /\ IsWordChar(s[i + 1]) THEN wordEnd(s, i + 1) ELSE i

WordStarts(s) == { i \in DOMAIN s : IsWordChar(s[i]) /\ (i = 1 \/ ~IsWordChar(s[i - 1])) }

Words(s) == { SubSeq(s, i, wordEnd(s, i)) : i \in WordStarts(s) }

\* p read without regard to letter case is a prefix of s
StartsWithCI(s, p) ==
  /\ Len(s) >= Len(p)
  /\ \A i \in DOMAIN p : s[i] = p[i] \/ s[i] = lowerChar(p[i])

\* p read without regard to letter case occurs in s at position i
OccursCI(s, i, p) ==
  /\ i + Len(p) - 1 <= Len(s)
  /\ \A k \in DOMAIN p : s[i + k - 1] = p[k] \/ s[i + k - 1] = lowerChar(p[k])

DenyList ==
  { kwDROP, kwDELETE, kwTRUNCATE, kwALTER, kwCREATE, kwINSERT,
    kwUPDATE, kwREPLACE, kwEXEC, kwEXECUTE, kwGRANT, kwREVOKE }

HasDenyListedWord(s) == \E w \in Words(s) : \E kw \in DenyList : Len(w) = Len(kw) /\ StartsWithCI(w, kw)

\* C5: a text holding a deny-listed keyword as a whole word, in any letter
\* case, is unsafe whatever surrounds it; a text none of whose words is a
\* deny-listed keyword (longer words may contain one), that starts with SELECT
\* or WITH and matches none of the four injection patterns, is safe.
C5_DenyListedWordIsUnsafe ==
  vout.called =>
    /\ HasDenyListedWord(vsql) => ~vout.is_safe
    /\ ( /\ ~HasDenyListedWord(vsql)
         /\ StartsWithCI(strip(vsql), kwSELECT) \/ StartsWithCI(strip(vsql), kwWITH)
         /\ ~anyInjectionPattern(vsql) ) => vout.is_safe

\* C5 witness: a statement that validate accepts, with a deny-listed keyword
\* written in mixed case as a whole word, was classified unsafe
C5_Witness ==
  /\ vout.called
  /\ vout.is_valid
  /\ <<"D","r","o","p">> \in Words(vsql)
  /\ StartsWithCI(vsql, kwSELECT)
  /\ ~vout.is_safe

\* C6: a text that, trimmed, does not start with SELECT or WITH in any letter
\* case is both unsafe and invalid.
C6_LeaderRequired ==
  ( /\ vout.called
    /\ ~StartsWithCI(strip(vsql), kwSELECT)
    /\ ~StartsWithCI(strip(vsql), kwWITH) ) => (~vout.is_safe /\ ~vout.is_valid)

\* C6 witness: a non-empty text with another leader, balanced brackets and
\* quotes and no deny-listed word was rejected by both checks
C6_Witness ==
  /\ vout.called
  /\ strip(vsql) # <<>>
  /\ ~StartsWithCI(strip(vsql), kwSELECT)
  /\ ~StartsWithCI(strip(vsql), kwWITH)
  /\ ~HasDenyListedWord(vsql)
  /\ ~anyInjectionPattern(vsql)
  /\ count(vsql, <<"(">>) = count(vsql, <<")">>)
  /\ ~vout.is_safe
  /\ ~vout.is_valid

\* UNION, in any letter case, is followed somewhere later in the text by SELECT
UnionThenSelect(s) ==
  \E i \in DOMAIN s : \E j \in DOMAIN s :
    /\ OccursCI(s, i, kwUNION)
    /\ j >= i + Len(kwUNION)
    /\ OccursCI(s, j, kwSELECT)

\* C7: every text in which UNION is followed later by SELECT, whatever lies
\* between them (line breaks included), is unsafe.
C7_UnionThenSelectIsUnsafe ==
  (vout.called /\ UnionThenSelect(vsql)) => ~vout.is_safe

\* the first token of a text: its leading run of letters, digits and underscores
FirstToken(s) == IF s # <<>> /\ IsWordChar(s[1]) THEN SubSeq(s, 1, wordEnd(s, 1)) ELSE <<>>

IsOdd(n) == n % 2 = 1

NumberOf(s, c) == Cardinality({ i \in DOMAIN s : s[i] = c })

\* quotes c of the text that no backslash immediately precedes
Unescaped(s, c) == Cardinality({ i \in DOMAIN s : s[i] = c /\ (i = 1 \/ s[i - 1] # "\\") })

BracketsDiffer(s) == NumberOf(s, "(") # NumberOf(s, ")")

QuotesOdd(s) == IsOdd(Unescaped(s, "'")) \/ IsOdd(Unescaped(s, "\""))

\* C8 as stated: validate reports invalid exactly when the trimmed text is
\* empty, or its first token is not SELECT or WITH, or its brackets differ in
\* number, or its unescaped quotes are odd in number.
C8_ValidateByFirstToken ==
  vout.called =>
    LET s == strip(vsql) IN
    /\ ~vout.is_valid <=>
         \/ s = <<>>
         \/ upper(FirstToken(s)) \notin {kwSELECT, kwWITH}
         \/ BracketsDiffer(s)
         \/ QuotesOdd(s)
    /\ vout.is_valid => vout.error = "None"

\* C8 amended: the same with (b) read as "the trimmed text does not begin with
\* the letters SELECT or WITH": a longer first word such as SELECTED passes.
C8_ValidateByPrefix ==
  vout.called =>
    LET s == strip(vsql) IN
    /\ ~vout.is_valid <=>
         \/ s = <<>>
         \/ (~StartsWithCI(s, kwSELECT) /\ ~StartsWithCI(s, kwWITH))
         \/ BracketsDiffer(s)
         \/ QuotesOdd(s)
    /\ vout.is_valid => vout.error = "None"

\* C8 witness: a SELECT with balanced brackets, one escaped and one unescaped
\* single quote, was reported invalid
C8_Witness ==
  /\ vout.called
  /\ StartsWithCI(strip(vsql), kwSELECT)
  /\ ~BracketsDiffer(vsql)
  /\ contains(vsql, <<"\\", "'">>)
  /\ QuotesOdd(vsql)
  /\ ~vout.is_valid
  /\ vout.error = "Unbalanced quotes"

\* C16: the report of get_safety_report classifies as is_safe and validate
\* do, and its list of issues is empty for a safe text and has at least one
\* entry for an unsafe one.
C16_ReportExplains ==
  vout.called =>
    /\ vout.report.is_safe = vout.is_safe
    /\ vout.report.is_valid = vout.is_valid
    /\ vout.report.validation_error = vout.error
    /\ vout.report.is_safe => vout.report.issues = <<>>
    /\ ~vout.report.is_safe => vout.report.issues # <<>>

(***************************************************************************)
(* Claims about the cache manager (checked under SpecCache).               *)
(***************************************************************************)
EntryOf(mem, key) == mem[IndexOfKey(mem, key)]

\* the hours since the entry was stored
AgeOf(e, t) == t - e.cached_at[2]

\* this step is a call of get, or of set, on the cache manager
IsGetStep == cop'.op = "get" /\ now' = now /\ vars' # vars
IsSetStep == cop'.op = "set" /\ now' = now /\ vars' # vars /\ ~cop'.raised

\* C9: get on an entry stored ttl_hours or more ago returns nothing, removes
\* the entry from the store and rewrites the document without it; get on a
\* younger entry returns its payload and leaves store and document alone; so
\* whatever get returns is the payload of an entry younger than ttl_hours.
C9_GetNeverReturnsExpired ==
  [][ IsGetStep =>
        LET key == cop'.key IN
        /\ (key \in Keys_of(cache) /\ AgeOf(EntryOf(cache, key), now) >= ttl_hours) =>
             /\ ~cop'.found
             /\ key \notin Keys_of(cache')
             /\ Keys_of(cache') = Keys_of(cache) \ {key}
             /\ file'.exists
             /\ file'.data = cache'
        /\ (key \in Keys_of(cache) /\ AgeOf(EntryOf(cache, key), now) < ttl_hours) =>
             /\ cop'.found
             /\ cop'.result = EntryOf(cache, key).result
             /\ cache' = cache
             /\ file' = file
        /\ cop'.found =>
             /\ key \in Keys_of(cache)
             /\ AgeOf(EntryOf(cache, key), now) < ttl_hours
    ]_vars

\* C9 witness: a get, made ttl_hours or more after start-up, found the entry
\* expired, removed it and left a document that equals the store
C9_Witness ==
  /\ cop.op = "get"
  /\ ~cop.found
  /\ cop.dropped = {cop.key}
  /\ now >= ttl_hours
  /\ file.exists
  /\ file.data = cache
  /\ cache # <<>>

\* the entries of mem whose cached_at is the least
Oldest(mem) ==
  { i \in DOMAIN mem : \A j \in DOMAIN mem : mem[i].cached_at[2] <= mem[j].cached_at[2] }

\* the store after set(key, value) at time t when entry i is evicted first
AfterEvicting(mem, i, key, value, t) ==
  PutKey(RemoveAt(mem, i), key, Entry(key, value, isoformat(t)))

\* C10: a set on a store of fewer than max_size entries evicts nothing; a set
\* on a store of max_size or more removes exactly one entry, one whose
\* cached_at is the oldest, and then inserts; and after max_size + 1 sets of
\* distinct keys on an empty store (nothing else touching it) the store holds
\* max_size entries and lacks an entry that was the oldest of the first max_size.
C10_SetEvictsOldest ==
  /\ [][ IsSetStep =>
           LET key == cop'.key
               value == cop'.result
           IN
           /\ Len(cache) < max_size =>
                cache' = PutKey(cache, key, Entry(key, value, isoformat(now)))
           /\ (Len(cache) >= max_size /\ cache # <<>>) =>
                \E i \in Oldest(cache) : cache' = AfterEvicting(cache, i, key, value, now)
       ]_vars
  /\ []( (fill.tracked /\ Len(fill.sets) = max_size + 1) =>
           /\ Len(cache) = max_size
           /\ \E i \in 1..max_size :
                /\ \A j \in 1..max_size : fill.sets[i].at <= fill.sets[j].at
                /\ fill.sets[i].key \notin Keys_of(cache) )

\* C10 witness: max_size + 1 distinct keys were set on an empty store of
\* max_size 2 at different times; the first, the oldest, is gone and the two
\* later ones are held
C10_Witness ==
  /\ max_size = 2
  /\ fill.tracked
  /\ Len(fill.sets) = max_size + 1
  /\ fill.sets[1].at < fill.sets[2].at
  /\ fill.sets[2].at < fill.sets[3].at
  /\ Keys_of(cache) = { fill.sets[2].key, fill.sets[3].key }

(***************************************************************************)
(* Claims about the translator (checked under Spec).                       *)
(***************************************************************************)
\* this step is a call of translate
IsTranslateStep == ret'.op = "translate" /\ now' = now /\ vars' # vars

EntriesOf(mem) == { mem[i] : i \in DOMAIN mem }

\* C1: execute_query hands a statement to the database only for an input that
\* passes is_safe: for an unsafe input the call fails with the safety error,
\* opens no connection and runs no statement, wherever the input came from.
C1_ExecuteAdmitsOnlySafe ==
  ret.op = "execute" =>
    /\ ~is_safe(ret.input) =>
         /\ ~ret.ok
         /\ ret.error = "Query contains potentially unsafe operations"
         /\ ~ret.connected
         /\ ret.stmt = None
    /\ (ret.connected \/ ret.stmt # None) => is_safe(ret.input)

\* C1 witness: a statement that translate replayed from the cache (the entry
\* carries the mark of a hit) and that is not safe was refused by execute_query
\* before any connection was opened
C1_Witness ==
  /\ ret.op = "execute"
  /\ ~ret.ok
  /\ ~ret.connected
  /\ ret.stmt = None
  /\ ret.input = DropT
  /\ \E e \in EntriesOf(cache) : e.result.sql = ret.input /\ e.result.cached

\* C2: a translate call that fails adds no entry to the store or the document
\* and replaces none; an entry that a translate call stores holds the text the
\* call returns, which validate finds valid and is_safe finds safe.
C2_FailureWritesNothing ==
  [][ IsTranslateStep =>
        /\ ~ret'.ok =>
             /\ EntriesOf(cache') \subseteq EntriesOf(cache)
             /\ EntriesOf(file'.data) \subseteq EntriesOf(file.data) \cup EntriesOf(cache)
        /\ (ret'.ok /\ ~ret'.cached) =>
             \A e \in EntriesOf(cache') \ EntriesOf(cache) :
               /\ e.key = generate_cache_key(ret'.q)
               /\ e.result.sql = ret'.sql
               /\ validate(e.result.sql).is_valid
               /\ is_safe(e.result.sql)
    ]_vars

\* C2 witness: a translate call with caching in use asked the provider, failed
\* on the answer, and the store holds no entry for its question
C2_Witness ==
  /\ ret.op = "translate"
  /\ ~ret.ok
  /\ ret.use_cache
  /\ cache_enabled
  /\ ret.llm_calls = 1
  /\ ret.error = gate_message("invalid")
  /\ generate_cache_key(ret.q) \notin Keys_of(cache)
  /\ cache # <<>>

\* C3: with caching enabled, a translate(q, use_cache=true) that returned a
\* result leaves an entry for q's key holding that result; as long as nothing
\* but the clock has moved since and the entry is younger than ttl_hours, the
\* next translate(q, use_cache=true) returns the same sql and explanation,
\* with cached=true.
C3_SecondCallIsCached ==
  /\ []( (ret.op = "translate" /\ ret.ok /\ ret.use_cache /\ cache_enabled) =>
           /\ generate_cache_key(ret.q) \in Keys_of(cache)
           /\ EntryOf(cache, generate_cache_key(ret.q)).result.sql = ret.sql
           /\ EntryOf(cache, generate_cache_key(ret.q)).result.explanation
                = ret.explanation )
  /\ [][ ( /\ IsTranslateStep
           /\ cache_enabled
           /\ ret.op = "translate" /\ ret.ok /\ ret.use_cache
           /\ ret'.q = ret.q /\ ret'.use_cache
           /\ AgeOf(EntryOf(cache, generate_cache_key(ret.q)), now) < ttl_hours ) =>
           /\ ret'.ok
           /\ ret'.cached
           /\ ret'.sql = ret.sql
           /\ ret'.explanation = ret.explanation
       ]_vars

\* C3 witness: a translate call was answered from an entry stored within the
\* same hour, explanation included
C3_Witness ==
  /\ ret.op = "translate"
  /\ ret.ok
  /\ ret.cached
  /\ ret.use_cache
  /\ ret.explanation # None
  /\ \E e \in EntriesOf(cache) :
       /\ e.key = generate_cache_key(ret.q)
       /\ e.cached_at = isoformat(now)
       /\ e.result.sql = ret.sql

\* C4: a translate call asks the provider at most once, also when the provider
\* fails; a call whose look-up hits (use_cache, caching enabled, an entry for
\* the question's key younger than ttl_hours) returns the entry's payload and
\* builds no prompt and asks the provider nothing.
C4_AtMostOneRequest ==
  /\ []( ret.op = "translate" =>
           /\ ret.llm_calls <= 1
           /\ ret.prompts <= 1
           /\ ret.cached => (ret.llm_calls = 0 /\ ret.prompts = 0) )
  /\ [][ ( /\ IsTranslateStep
           /\ ret'.use_cache
           /\ cache_enabled
           /\ generate_cache_key(ret'.q) \in Keys_of(cache)
           /\ AgeOf(EntryOf(cache, generate_cache_key(ret'.q)), now) < ttl_hours ) =>
           /\ ret'.ok
           /\ ret'.cached
           /\ ret'.sql = EntryOf(cache, generate_cache_key(ret'.q)).result.sql
           /\ ret'.llm_calls = 0
           /\ ret'.prompts = 0
       ]_vars

\* C4 witness: a translate call returned a cached payload without a prompt or
\* a request to the provider
C4_Witness ==
  /\ ret.op = "translate"
  /\ ret.ok
  /\ ret.cached
  /\ ret.llm_calls = 0
  /\ ret.prompts = 0
  /\ generate_cache_key(ret.q) \in Keys_of(cache)

(***************************************************************************)
(* Claims about the start of the cache manager (checked under SpecLoad).   *)
(***************************************************************************)
\* the entry of a document is a record with a cached_at younger than ttl_hours
IsKept(e, t) ==
  /\ e.cached_at[1] = "iso"
  /\ t - e.cached_at[2] < ttl_hours

\* C11: the start of the cache manager never fails because of its document:
\* an absent, corrupt or otherwise malformed document gives an empty store or
\* the loss of the malformed entry, and of a well-formed document exactly the
\* entries with a parseable cached_at younger than ttl_hours are kept.
C11_LoadNeverFails ==
  cop.op = "load" =>
    /\ ~cop.raised
    /\ (~file.exists \/ file.form # "map") => cache = <<>>
    /\ (file.exists /\ file.form = "map") =>
         EntriesOf(cache) = { e \in EntriesOf(file.data) : IsKept(e, now) }

(***************************************************************************)
(* Claims about a document that cannot be written (checked under           *)
(* SpecUnwritable).                                                        *)
(***************************************************************************)
\* C12: with a document that can be neither written nor removed, every call
\* ends as a call that swallowed the failure ends: a set returns normally with
\* its payload in the store, a clear returns normally with the store empty,
\* and a translate returns what it would return over a writable document.
C12_PersistenceFailureSwallowed ==
  [][ ~writable =>
        \/ /\ cop'.op = "set"
           /\ ~cop'.raised
           /\ ret' = ret
           /\ cop'.key \in Keys_of(cache')
           /\ EntryOf(cache', cop'.key).result = cop'.result
        \/ /\ cop'.op = "clear"
           /\ ~cop'.raised
           /\ ret' = ret
           /\ cache' = <<>>
        \/ /\ cop' = cop
           /\ \E llm \in LLMOutcomes :
                LET r == translate(cache, file, cache_enabled, max_size, now, TRUE,
                                   ret'.q, ret'.use_cache, llm)
                IN ret' = r.ret /\ cache' = r.cache
    ]_vars

(***************************************************************************)
(* Claims about execute_query (checked under SpecExecute).                 *)
(***************************************************************************)
\* the text is a SELECT statement; it has a LIMIT clause (the word LIMIT)
IsSelectStatement(s) == upper(FirstToken(strip(s))) = kwSELECT

HasLimitClause(s) == \E w \in Words(s) : upper(w) = kwLIMIT

LimitText(n) == <<" ">> \o kwLIMIT \o <<" ">> \o intToStr(n)

\* stmt is s with ' LIMIT n' put after its body and before its trailing
\* semicolons and blanks, which may be dropped
LimitAppended(stmt, s, n) ==
  \E k \in 0..Len(s) :
    LET body == SubSeq(s, 1, k)
        rest == SubSeq(s, k + 1, Len(s))
    IN /\ \A i \in DOMAIN rest : rest[i] \in WhiteSpace \cup {";"}
       /\ rstrip(body) = <<>> \/ rstrip(body)[Len(rstrip(body))] # ";"
       /\ stmt \in { body \o LimitText(n), body \o LimitText(n) \o <<";">> }

\* C13: the statement run for an admitted input is the input with ' LIMIT
\* <limit>' appended before any trailing semicolon exactly when the input is
\* a SELECT statement without a LIMIT clause, and the input itself otherwise.
C13_LimitAppendedOnce ==
  (ret.op = "execute" /\ ret.stmt # None) =>
    IF IsSelectStatement(ret.input) /\ ~HasLimitClause(ret.input)
      THEN \E n \in Limits : LimitAppended(ret.stmt, ret.input, n)
      ELSE ret.stmt = ret.input

(***************************************************************************)
(* Claims about the errors of translate and execute_query (checked under   *)
(* Spec).                                                                  *)
(***************************************************************************)
Failed(r) == r.op # "none" /\ ~r.ok

\* what made the call fail, read from the message the caller gets
Cause(r) ==
  IF r.error = gate_message("invalid") THEN "validation"
  ELSE IF r.error \in { gate_message("unsafe"),
                        "Query contains potentially unsafe operations" } THEN "safety"
  ELSE IF r.error = "OpenAI API error: " THEN "provider"
  ELSE IF r.error = "Database error: " THEN "database"
  ELSE "other"

ClientCauses == { "validation", "safety" }
DependencyCauses == { "provider", "database" }

\* failures of each kind: the provider's answer is invalid, is unsafe, the
\* provider fails; the text submitted is unsafe, the database fails
SampleFailures ==
  { translate(<<>>, AbsentFile, FALSE, MaxSize, 0, TRUE, <<"a">>, FALSE, llm).ret :
      llm \in { Answer(kwSELECT \o <<" ","(","a">>), Answer(DropT), ProviderError } }
  \cup { execute_query(DropT, 100, "ok"), execute_query(SelectA, 100, "execute_error") }

\* C14: the category of an error (the class of the exception) tells what made
\* the call fail: failures of different causes have different categories, so
\* that a client-input failure (validation, safety) is told from a dependency
\* failure (provider, database) by the category alone.
C14_CategoryTellsCause ==
  (Failed(ret) /\ Cause(ret) \in ClientCauses \cup DependencyCauses) =>
    \A r \in SampleFailures :
      exception_class(r) = exception_class(ret) => Cause(r) = Cause(ret)

(***************************************************************************)
(* Claims about two writers (checked under SpecTwoWriters).                *)
(***************************************************************************)
\* C15: with two processes writing one document, the last writer wins: the
\* document is the whole dict of the process that wrote last, so an entry the
\* other process has stored and still holds can be missing from it.
C15_LastWriterWins ==
  file.exists =>
    /\ cop.op = "set" => file.data = cache
    /\ cop.op = "peer_set" => file.data = peer

\* C15 witness: the first process holds an entry it stored less than ttl_hours
\* ago, and the document, last written by the second process, has no entry for
\* its key
C15_Witness ==
  /\ cop.op = "peer_set"
  /\ \E e \in EntriesOf(cache) :
       /\ AgeOf(e, now) < ttl_hours
       /\ e.key \notin Keys_of(file.data)
       /\ e.key \notin Keys_of(peer)

(***************************************************************************)
(* Claims about the translator and its cache (checked under Spec).         *)
(***************************************************************************)
\* C17: a translate call with use_cache=false, and any translate call of a
\* translator built without caching, leaves the store and the document as they
\* were, whether it succeeds or fails, and what it returns is generated anew:
\* one prompt, one request, cached=false.
C17_NoCacheUseWithoutCaching ==
  [][ (IsTranslateStep /\ (~ret'.use_cache \/ ~cache_enabled)) =>
        /\ cache' = cache
        /\ file' = file
        /\ ~ret'.cached
        /\ ret'.prompts = 1
        /\ ret'.llm_calls = 1
    ]_vars

\* C17 witness: with caching enabled and an entry for the question in the
\* store, a translate call with use_cache=false returned another statement
\* than the stored one, not marked as cached
C17_Witness ==
  /\ ret.op = "translate"
  /\ ret.ok
  /\ ~ret.use_cache
  /\ cache_enabled
  /\ ~ret.cached
  /\ generate_cache_key(ret.q) \in Keys_of(cache)
  /\ AgeOf(EntryOf(cache, generate_cache_key(ret.q)), now) < ttl_hours
  /\ EntryOf(cache, generate_cache_key(ret.q)).result.sql # ret.sql

\* the question lower-cased and trimmed
Normal(q) == strip(lower(q))

\* the store holds an entry younger than ttl_hours for the question
HasLiveEntry(mem, q, t) ==
  \E e \in EntriesOf(mem) : e.key = md5(Normal(q)) /\ AgeOf(e, t) < ttl_hours

\* a translate(q2, use_cache=true) follows a successful translate(q1,
\* use_cache=true) whose entry is still alive, with caching enabled
IsSecondCachedCall ==
  /\ IsTranslateStep
  /\ cache_enabled
  /\ ret.op = "translate" /\ ret.ok /\ ret.use_cache
  /\ ret'.use_cache
  /\ HasLiveEntry(cache, ret.q, now)

\* C18 as stated: the second call is a hit with the sql of the first when the
\* two questions differ in letter case and surrounding white space only, and a
\* miss when their normalised texts differ.
C18_KeyIsNormalisedQuestion ==
  [][ IsSecondCachedCall =>
        IF Normal(ret'.q) = Normal(ret.q)
          THEN ret'.ok /\ ret'.cached /\ ret'.sql = ret.sql
          ELSE ~ret'.cached
    ]_vars

\* C18 amended: when the normalised texts differ the second call is a miss
\* unless the store already holds a live entry for the second question itself,
\* which it then returns.
C18_KeyIsNormalisedQuestionOwnEntry ==
  [][ IsSecondCachedCall =>
        IF Normal(ret'.q) = Normal(ret.q)
          THEN ret'.ok /\ ret'.cached /\ ret'.sql = ret.sql
          ELSE /\ ret'.cached <=> HasLiveEntry(cache, ret'.q, now)
               /\ ret'.cached =>
                    ret'.sql = EntryOf(cache, md5(Normal(ret'.q))).result.sql
               /\ ~ret'.cached => ret'.llm_calls = 1
    ]_vars

\* C18 witness: a question differing from the stored one in case and spacing
\* was answered from the entry stored for the other within the same hour
C18_Witness ==
  /\ ret.op = "translate"
  /\ ret.ok
  /\ ret.cached
  /\ ret.q # Normal(ret.q)
  /\ \E e \in EntriesOf(cache) :
       /\ e.key = md5(Normal(ret.q))
       /\ e.cached_at = isoformat(now)
       /\ e.result.sql = ret.sql

\* C19: a stored payload changes only when its entry is replaced by a set,
\* evicted, expired or cleared: an entry that a step leaves in the store with
\* its cached_at keeps every field of its payload, a translate hit included.
C19_PayloadNeverPatched ==
  [][ \A e \in EntriesOf(cache) : \A f \in EntriesOf(cache') :
        (e.key = f.key /\ e.cached_at = f.cached_at /\ ~(ret'.op = "translate" /\ ~ret'.cached /\ ret'.ok))
          => f.result = e.result
    ]_vars

\* C20: with one process and a writable document, after every operation the
\* document holds exactly the entries of the store, an absent document
\* counting as an empty one.
C20_DocumentEqualsStore ==
  (cache_enabled /\ writable) =>
    IF file.exists THEN file.form = "map" /\ file.data = cache ELSE cache = <<>>

(***************************************************************************)
(* Claims about database connections (checked under SpecExecute).          *)
(***************************************************************************)
\* C21: when execute_query or get_schema has returned, with a result or with
\* an error, the connection the call opened has been closed.
C21_ConnectionClosedOnReturn ==
  ret.connected => ret.closed

(***************************************************************************)
(* Claims about the size of the store (checked under SpecLoad).            *)
(***************************************************************************)
\* C22: the store never holds more than max_size entries, whatever number of
\* unexpired entries the document held when the cache manager started.
C22_StoreWithinMaxSize ==
  Len(cache) <= max_size

(***************************************************************************)
(* Claims about set (checked under SpecCache).                             *)
(***************************************************************************)
\* C23: set never fails the write: whatever the store holds and whatever
\* max_size >= 0 is, the call returns normally, and a get of the same key made
\* right after it returns the payload just stored.
C23_SetNeverFails ==
  [][ (cop'.op = "set" /\ now' = now) =>
        /\ ~cop'.raised
        /\ LET after == cache_get(cache', file', cop'.key, now', writable')
           IN after.found /\ after.result = cop'.result
    ]_vars

(***************************************************************************)
(* Claims about a translator started on an empty cache (checked under      *)
(* SpecEmptyStart).                                                        *)
(***************************************************************************)
\* C24: started on an empty cache, every sql that translate returns, generated
\* or replayed from the cache, passes validate and is_safe, and so does every
\* sql the store holds, after any sequence of calls, expiries and evictions.
C24_ReturnedSqlIsChecked ==
  /\ (ret.op = "translate" /\ ret.ok) =>
        validate(ret.sql).is_valid /\ is_safe(ret.sql)
  /\ \A e \in EntriesOf(cache) :
        validate(e.result.sql).is_valid /\ is_safe(e.result.sql)

\* C24 witness: a statement stored after the clock advanced was replayed
\* from a store holding max_size entries
C24_Witness ==
  /\ ret.op = "translate"
  /\ ret.ok
  /\ ret.cached
  /\ now > 0
  /\ Len(cache) = max_size
  /\ EntryOf(cache, generate_cache_key(ret.q)).cached_at = isoformat(now)

\* C25: set on a key the store already holds replaces that key's entry only:
\* every other entry of the store is still there, unchanged, after the call,
\* also when the store holds max_size entries.
C25_SetReplacesOnlyItsKey ==
  [][ (cop'.op = "set" /\ now' = now /\ ~cop'.raised /\ cop'.key \in Keys_of(cache)) =>
        \A e \in EntriesOf(cache) : e.key # cop'.key => e \in EntriesOf(cache')
    ]_vars

(***************************************************************************)
(* Claims about the clean-up of the response (checked under SpecSanitize). *)
(***************************************************************************)
\* C26: of a response made of an opening fence, an optional language tag in
\* any letter case, the statement and a closing fence, the text handed to
\* validate and is_safe is the trimmed statement, without fence and tag; a
\* response without fences is handed over trimmed and otherwise unchanged.
C26_SanitizeRemovesFenceAndTag ==
  ret.op = "sanitize" =>
    /\ \A r \in FencedResponses : ret.input = r.text => ret.sql = strip(r.body)
    /\ ret.input \in UnfencedResponses => ret.sql = strip(ret.input)

=============================================================================
